---------------------------- MODULE Spec2Model ----------------------------
(***************************************************************************)
(* A model of the air-quality dashboard component App (src/src/App.tsx,    *)
(* the richer variant, lines 1-619): its React state, the paginated        *)
(* retrieval of rows (loadInitial, loadMore), the default-resolution pass  *)
(* of the schema selector, and the derived views (classified columns,      *)
(* filtered rows, ranking, time series, moving average, histogram,         *)
(* statistics).                                                            *)
(*                                                                         *)
(* Representation.                                                         *)
(*  - A JavaScript string is a tuple of one-character strings, so that     *)
(*    trim, toLowerCase, includes, Number(..) and Date.parse(..) are       *)
(*    computed on the characters.                                          *)
(*  - A JSON value is a record [type, s, n]: type is what `typeof` gives.  *)
(*  - A row (AnyRecord) is a tuple of <<key, value>> pairs in insertion    *)
(*    order with distinct keys (Object.keys order).                        *)
(*  - `T | undefined` is a tuple of length 0 (undefined) or 1.             *)
(*  - Numbers are integers; on the values used every IEEE-754 double       *)
(*    operation of the code is exact.  Quotients (mean, moving average)    *)
(*    are kept as pairs <<numerator, denominator>>.                        *)
(***************************************************************************)
EXTENDS Integers, Sequences, FiniteSets, TLC

VARIABLES rows, loading, error, query, groupKey, metricKey, dateKey,
          selectedGroupValue, offset, hasMore, loadingMore,
          cancelled, requests, lastOp

vars == <<rows, loading, error, query, groupKey, metricKey, dateKey, selectedGroupValue, offset, hasMore, loadingMore, cancelled, requests, lastOp>>

(***************************************************************************)
(* Characters and strings                                                  *)
(***************************************************************************)
UpperChars == <<"A","B","C","D","E","F","G","H","I","J","K","L","M","N","O","P","Q","R","S","T","U","V","W","X","Y","Z">>
LowerChars == <<"a","b","c","d","e","f","g","h","i","j","k","l","m","n","o","p","q","r","s","t","u","v","w","x","y","z">>
DigitChars == <<"0","1","2","3","4","5","6","7","8","9">>
WhiteSpace == {" ", "\t", "\n"}

IndexOf(seq, x) == IF \E i \in 1..Len(seq) : seq[i] = x THEN CHOOSE i \in 1..Len(seq) : seq[i] = x ELSE 0

\* Unicode code unit order of the characters the day strings are made of.
CharOrder == <<" ", "-">> \o DigitChars \o UpperChars \o <<"_">> \o LowerChars
CharCode(c) == IndexOf(CharOrder, c)

toLowerChar(c) == IF IndexOf(UpperChars, c) > 0 THEN LowerChars[IndexOf(UpperChars, c)] ELSE c

RECURSIVE toLowerCase(_)
toLowerCase(s) == IF s = <<>> THEN <<>> ELSE <<toLowerChar(Head(s))>> \o toLowerCase(Tail(s))

RECURSIVE trimStart(_)
trimStart(s) == IF s # <<>> /\ Head(s) \in WhiteSpace THEN trimStart(Tail(s)) ELSE s

RECURSIVE trimEnd(_)
trimEnd(s) == IF s # <<>> /\ s[Len(s)] \in WhiteSpace THEN trimEnd(SubSeq(s, 1, Len(s) - 1)) ELSE s

trim(s) == trimEnd(trimStart(s))

\* String.prototype.includes: needle occurs as a contiguous substring.
includes(s, needle) == \E i \in 1..(Len(s) - Len(needle) + 1) : SubSeq(s, i, i + Len(needle) - 1) = needle

IsDigits(s) == s # <<>> /\ \A i \in 1..Len(s) : IndexOf(DigitChars, s[i]) > 0

RECURSIVE DigitsValue(_)
DigitsValue(s) == IF s = <<>> THEN 0 ELSE 10 * DigitsValue(SubSeq(s, 1, Len(s) - 1)) + (IndexOf(DigitChars, s[Len(s)]) - 1)

\* Number(string): <<n>> for a finite number, <<>> for NaN.  White space is
\* trimmed, the empty string is 0, an optional sign precedes decimal digits.
\* (Fractions, exponents, hexadecimal and Infinity are outside the strings used.)
StringToNumber(s) ==
  LET t == trim(s) IN
    IF t = <<>> THEN <<0>>
    ELSE IF IsDigits(t) THEN <<DigitsValue(t)>>
    ELSE IF Head(t) = "-" /\ IsDigits(Tail(t)) THEN <<0 - DigitsValue(Tail(t))>>
    ELSE IF Head(t) = "+" /\ IsDigits(Tail(t)) THEN <<DigitsValue(Tail(t))>>
    ELSE <<>>

(***************************************************************************)
(* Dates: Date.parse on the ISO formats YYYY, YYYY-MM-DD and               *)
(* YYYY-MM-DDTHH:mmZ (UTC), and new Date(t).toISOString().slice(0, 10).    *)
(***************************************************************************)
MsPerMinute == 60 * 1000
MsPerDay == 24 * 60 * MsPerMinute

IsLeapYear(y) == (y % 4 = 0 /\ y % 100 # 0) \/ y % 400 = 0
DaysInMonth(y, m) == IF m = 2 THEN (IF IsLeapYear(y) THEN 29 ELSE 28) ELSE IF m \in {4, 6, 9, 11} THEN 30 ELSE 31

\* Days since 1970-01-01 of a civil date (proleptic Gregorian calendar).
DaysFromCivil(y0, m, d) ==
  LET y == IF m <= 2 THEN y0 - 1 ELSE y0
      era == y \div 400
      yoe == y - era * 400
      mp == IF m > 2 THEN m - 3 ELSE m + 9
      doy == (153 * mp + 2) \div 5 + d - 1
      doe == yoe * 365 + yoe \div 4 - yoe \div 100 + doy
  IN era * 146097 + doe - 719468

\* The civil date <<y, m, d>> of a day number.
CivilFromDays(z0) ==
  LET z == z0 + 719468
      era == z \div 146097
      doe == z - era * 146097
      yoe == (doe - doe \div 1460 + doe \div 36524 - doe \div 146096) \div 365
      doy == doe - (365 * yoe + yoe \div 4 - yoe \div 100)
      mp == (5 * doy + 2) \div 153
      d == doy - (153 * mp + 2) \div 5 + 1
      m == IF mp < 10 THEN mp + 3 ELSE mp - 9
      y == yoe + era * 400 + (IF m <= 2 THEN 1 ELSE 0)
  IN <<y, m, d>>

ValidDate(y, m, d) == m \in 1..12 /\ d >= 1 /\ d <= DaysInMonth(y, m)

\* Date.parse(string): <<ms since the epoch>>, or <<>> for NaN.
DateParse(s) ==
  LET num(i, j) == DigitsValue(SubSeq(s, i, j))
      dig(i, j) == IsDigits(SubSeq(s, i, j))
      dateOk == Len(s) >= 10 /\ dig(1, 4) /\ s[5] = "-" /\ dig(6, 7) /\ s[8] = "-" /\ dig(9, 10)
                /\ ValidDate(num(1, 4), num(6, 7), num(9, 10))
      timeOk == Len(s) = 17 /\ s[11] = "T" /\ dig(12, 13) /\ s[14] = ":" /\ dig(15, 16) /\ s[17] = "Z"
                /\ num(12, 13) <= 23 /\ num(15, 16) <= 59
  IN IF Len(s) = 4 /\ dig(1, 4) THEN <<DaysFromCivil(num(1, 4), 1, 1) * MsPerDay>>
     ELSE IF Len(s) = 10 /\ dateOk THEN <<DaysFromCivil(num(1, 4), num(6, 7), num(9, 10)) * MsPerDay>>
     ELSE IF dateOk /\ timeOk THEN <<DaysFromCivil(num(1, 4), num(6, 7), num(9, 10)) * MsPerDay + (num(12, 13) * 60 + num(15, 16)) * MsPerMinute>>
     ELSE <<>>

Pad(n, width) == [i \in 1..width |-> DigitChars[((n \div (10 ^ (width - i))) % 10) + 1]]

\* new Date(t).toISOString().slice(0, 10) for years 0000..9999.
ISODay(t) ==
  LET c == CivilFromDays(t \div MsPerDay)
  IN Pad(c[1], 4) \o <<"-">> \o Pad(c[2], 2) \o <<"-">> \o Pad(c[3], 2)

\* a.localeCompare(b) < 0 on strings of digits and hyphens: code unit order.
RECURSIVE StringLess(_, _)
StringLess(a, b) ==
  IF b = <<>> THEN FALSE
  ELSE IF a = <<>> THEN TRUE
  ELSE IF Head(a) # Head(b) THEN CharCode(Head(a)) < CharCode(Head(b))
  ELSE StringLess(Tail(a), Tail(b))

(***************************************************************************)
(* JSON values and rows                                                    *)
(***************************************************************************)
Str(s) == [type |-> "string", s |-> s, n |-> 0]
Num(n) == [type |-> "number", s |-> <<>>, n |-> n]
Null == [type |-> "object", s |-> <<>>, n |-> 0]
Undefined == [type |-> "undefined", s |-> <<>>, n |-> 0]

isString(value) == value.type = "string"
\* JSON numbers are finite, so Number.isFinite holds of every number value.
isNumber(value) == value.type = "number"

coerceNumber(value) ==
  IF isNumber(value) THEN <<value.n>>
  ELSE IF isString(value) THEN StringToNumber(value.s)
  ELSE <<>>

\* r[c]: the value under key c, undefined when the row has no such key.
Get(r, c) == IF \E i \in 1..Len(r) : r[i][1] = c THEN r[CHOOSE i \in 1..Len(r) : r[i][1] = c][2] ELSE Undefined

\* Object.keys(r) and Object.values(r), in insertion order.
Keys(r) == [i \in 1..Len(r) |-> r[i][1]]
Values(r) == [i \in 1..Len(r) |-> r[i][2]]

\* Truthiness of `string | undefined`: undefined and "" are falsy.
Truthy(k) == k # <<>> /\ k[1] # <<>>

\* Array helpers: array.find(p), given the set of the elements that satisfy p;
\* array[0]; `a || b` on string | undefined; array.includes(x).
Find(seq, matching) == IF \E i \in 1..Len(seq) : seq[i] \in matching THEN <<seq[CHOOSE i \in 1..Len(seq) : seq[i] \in matching /\ \A j \in 1..(i - 1) : seq[j] \notin matching]>> ELSE <<>>
First(seq) == IF seq = <<>> THEN <<>> ELSE <<seq[1]>>
OrElse(a, b) == IF Truthy(a) THEN a ELSE b
Includes(seq, x) == \E i \in 1..Len(seq) : seq[i] = x

(***************************************************************************)
(* Type classifier                                                         *)
(***************************************************************************)
\* keys.add(k) for the keys of one row: a Set keeps insertion order and
\* ignores a key it already holds (the keys of one object are distinct).
AddKeys(acc, keys) == acc \o SelectSeq(keys, LAMBDA k : ~Includes(acc, k))

\* The Set after the loop over the rows.
RECURSIVE UnionKeys(_)
UnionKeys(rs) == IF rs = <<>> THEN <<>> ELSE AddKeys(UnionKeys(SubSeq(rs, 1, Len(rs) - 1)), Keys(rs[Len(rs)]))

allColumns(rs) == IF Len(rs) = 0 THEN <<>> ELSE UnionKeys(rs)

\* isString(r[c]) && (r[c] as string).trim()
NonBlankString(v) == isString(v) /\ trim(v.s) # <<>>

stringColumns(rs) == SelectSeq(allColumns(rs), LAMBDA c : \E i \in 1..Len(rs) : NonBlankString(Get(rs[i], c)))

numericColumns(rs) == SelectSeq(allColumns(rs), LAMBDA c : \E i \in 1..Len(rs) : coerceNumber(Get(rs[i], c)) # <<>>)

threshold == 6

\* One hit of the date scan: a string that is not a finite number and parses as a date.
DateHit(v) == isString(v) /\ StringToNumber(v.s) = <<>> /\ DateParse(v.s) # <<>>

\* The scan pushes a column when its hits reach the threshold and then stops
\* scanning it: the column is listed exactly when it has >= threshold hits.
dateColumns(rs) == SelectSeq(allColumns(rs), LAMBDA c : Cardinality({i \in 1..Len(rs) : DateHit(Get(rs[i], c))}) >= threshold)

(***************************************************************************)
(* Schema selector                                                         *)
(***************************************************************************)
nameCandidates ==
  << <<"g","e","o","_","i","d","_","n","a","m","e">>,
     <<"g","e","o","i","d","_","n","a","m","e">>,
     <<"g","e","o","_","n","a","m","e">>,
     <<"n","e","i","g","h","b","o","r","h","o","o","d","_","n","a","m","e">>,
     <<"n","e","i","g","h","b","o","r","h","o","o","d">>,
     <<"b","o","r","o","u","g","h">>,
     <<"c","o","m","m","u","n","i","t","y","_","d","i","s","t","r","i","c","t">>,
     <<"a","r","e","a","_","n","a","m","e">>,
     <<"z","o","n","e","_","n","a","m","e">> >>

groupCandidates ==
  << <<"g","e","o","_","i","d","_","n","a","m","e">>,
     <<"g","e","o","i","d","_","n","a","m","e">>,
     <<"g","e","o","_","n","a","m","e">>,
     <<"b","o","r","o","u","g","h">>,
     <<"n","e","i","g","h","b","o","r","h","o","o","d">>,
     <<"c","o","m","m","u","n","i","t","y","_","d","i","s","t","r","i","c","t">> >>

metricCandidates ==
  << <<"a","i","r","_","q","u","a","l","i","t","y","_","i","n","d","e","x">>,
     <<"a","q","i">>,
     <<"p","m","2","5">>,
     <<"p","m","_","2","_","5">>,
     <<"n","o","2">>,
     <<"o","z","o","n","e">>,
     <<"s","o","2">>,
     <<"v","a","l","u","e">>,
     <<"s","c","o","r","e">> >>

dateCandidates ==
  << <<"d","a","t","e">>,
     <<"m","e","a","s","u","r","e","m","e","n","t","_","d","a","t","e">>,
     <<"s","a","m","p","l","e","_","d","a","t","e">>,
     <<"c","r","e","a","t","e","d","_","d","a","t","e">>,
     <<"t","i","m","e">>,
     <<"t","i","m","e","s","t","a","m","p">>,
     <<"d","a","t","e","t","i","m","e">> >>

\* candidates.find((c) => lower.has(c)) || undefined: the candidate itself is returned.
nameKey(rs) ==
  LET cols == stringColumns(rs)
      lower == {toLowerCase(cols[i]) : i \in 1..Len(cols)}
  IN OrElse(Find(nameCandidates, lower), <<>>)

\* A mutation of the updaters below: the slot is recomputed on every pass.
ReDefault(prev, candidates, columns) == OrElse(Find(columns, {c \in {columns[i] : i \in 1..Len(columns)} : Includes(candidates, toLowerCase(c))}), First(columns))

\* A mutation of the updaters below: the matching entry of the preference
\* list is returned in place of the column it matches (as nameKey does).
ResolveSlot_ReturnsCandidate(prev, candidates, columns) ==
  IF Truthy(prev) THEN prev
  ELSE OrElse(Find(candidates, {toLowerCase(columns[i]) : i \in 1..Len(columns)}), First(columns))

\* The updater of setGroupKey / setMetricKey / setDateKey in the defaults effect:
\* if (prev) return prev; else the preferred column, else the first column.
ResolveSlot(prev, candidates, columns) ==
  IF Truthy(prev) THEN prev
  ELSE OrElse(Find(columns, {c \in {columns[i] : i \in 1..Len(columns)} : Includes(candidates, toLowerCase(c))}), First(columns))

\* The three slots after the defaults effect has run on row set rs.
DefaultsEffect(rs, g, m, d) ==
  IF Len(rs) = 0 THEN <<g, m, d>>
  ELSE <<ResolveSlot(g, groupCandidates, stringColumns(rs)),
         ResolveSlot(m, metricCandidates, numericColumns(rs)),
         ResolveSlot(d, dateCandidates, dateColumns(rs))>>

(***************************************************************************)
(* Paginated retrieval: the state machine of App                           *)
(***************************************************************************)
\* Page size of the requests.  The code uses 1000; the model scales it down.
PAGE_SIZE == 3

\* The data set behind the endpoint holds at most MaxRows rows.
MaxRows == 7

S_All == <<"A","l","l">>
S_zip == <<"z","i","p">>
S_when == <<"w","h","e","n">>
S_Borough == <<"B","o","r","o","u","g","h">>
S_value == <<"v","a","l","u","e">>
S_date == <<"d","a","t","e">>
S_n == <<"n">>
S_Bronx == <<"B","r","o","n","x">>
Day2 == <<"1","9","7","0","-","0","1","-","0","2">>
Day3 == <<"1","9","7","0","-","0","1","-","0","3">>

\* The rows the endpoint may serve: one with columns no preference list names,
\* one with a preferred column of each kind, one with a number only.
RowPlain == << <<S_zip, Str(<<"7">>)>>, <<S_when, Str(Day2)>> >>
RowPreferred == << <<S_Borough, Str(S_Bronx)>>, <<S_value, Num(5)>>, <<S_date, Str(Day3)>>, <<S_when, Str(Day3)>> >>
RowNumber == << <<S_n, Num(1)>> >>
RowPool == {RowPlain, RowPreferred, RowNumber}

\* A response body: at most `limit` rows, and none past the end of the data set.
Pages(off) == UNION {[1..k -> RowPool] : k \in 0..(IF MaxRows - off < PAGE_SIZE THEN (IF MaxRows < off THEN 0 ELSE MaxRows - off) ELSE PAGE_SIZE)}

\* e.message of a failed request: a non-success status, or a transport error.
ErrorMessages == {"HTTP 500", "Failed to fetch"}

Remove(seq, i) == SubSeq(seq, 1, i - 1) \o SubSeq(seq, i + 1, Len(seq))

\* State after the mount: the effect has called loadInitial, which has run to
\* its first await (setLoading(true), setError(null), fetch issued).
Init ==
  /\ rows = <<>>
  /\ loading = TRUE
  /\ error = <<>>
  /\ query = <<>>
  /\ groupKey = <<>>
  /\ metricKey = <<>>
  /\ dateKey = <<>>
  /\ selectedGroupValue = S_All
  /\ offset = 0
  /\ hasMore = TRUE
  /\ loadingMore = FALSE
  /\ cancelled = FALSE
  /\ requests = <<[kind |-> "initial", offset |-> 0]>>
  /\ lastOp = "mount"

\* The defaults effect runs after a render in which rows changed; no render
\* follows on a component that is torn down.
RunDefaults(rs) ==
  LET sel == IF cancelled THEN <<groupKey, metricKey, dateKey>> ELSE DefaultsEffect(rs, groupKey, metricKey, dateKey)
  IN /\ groupKey' = sel[1]
     /\ metricKey' = sel[2]
     /\ dateKey' = sel[3]

\* A mutation of the end-of-data test: any non-empty page promises more.
MorePagesAfter_NonEmpty(data) == Len(data) > 0

\* setHasMore(data.length === PAGE_SIZE)
MorePagesAfter(data) == Len(data) = PAGE_SIZE

\* loadInitial, from the arrival of a successful response.
InitialResolve(i, data) ==
  /\ requests[i].kind = "initial"
  /\ requests' = Remove(requests, i)
  /\ IF cancelled
     THEN /\ lastOp' = "initialDiscarded"
          /\ UNCHANGED <<rows, offset, hasMore, loading, groupKey, metricKey, dateKey>>
     ELSE /\ rows' = data
          /\ offset' = Len(data)
          /\ hasMore' = MorePagesAfter(data)
          /\ loading' = FALSE
          /\ RunDefaults(data)
          /\ lastOp' = "initialApplied"
  /\ UNCHANGED <<error, query, selectedGroupValue, loadingMore, cancelled>>

\* loadInitial, from a failed request (fetch rejected, !res.ok, res.json() failed).
InitialReject(i, msg) ==
  /\ requests[i].kind = "initial"
  /\ requests' = Remove(requests, i)
  /\ IF cancelled
     THEN /\ lastOp' = "initialDiscarded"
          /\ UNCHANGED <<error, loading>>
     ELSE /\ error' = <<msg>>
          /\ loading' = FALSE
          /\ lastOp' = "initialFailed"
  /\ UNCHANGED <<rows, offset, hasMore, query, selectedGroupValue, loadingMore, cancelled, groupKey, metricKey, dateKey>>

\* !loading && !error: the section that holds the load-more button is rendered.
DataSectionRendered == ~loading /\ error = <<>>

\* {hasMore && <button disabled={loadingMore} onClick={loadMore}>}
LoadMoreButtonEnabled == DataSectionRendered /\ hasMore /\ ~loadingMore

\* A mutation of the guard: the in-flight flag is not consulted.
ReturnsEarly_IgnoresInFlight(lm, hm) == ~hm

\* if (loadingMore || !hasMore) return
ReturnsEarly(lm, hm) == lm \/ ~hm

\* loadMore, from the call to its first await.  The call is offered in every
\* state in which the data section is rendered, so that the guard of the
\* function, not the button around it, decides.
LoadMoreCall ==
  /\ ~cancelled
  /\ DataSectionRendered
  /\ IF ReturnsEarly(loadingMore, hasMore)
     THEN /\ lastOp' = "loadMoreRejected"
          /\ UNCHANGED <<loadingMore, requests>>
     ELSE /\ loadingMore' = TRUE
          /\ requests' = Append(requests, [kind |-> "more", offset |-> offset])
          /\ lastOp' = "loadMoreIssued"
  /\ UNCHANGED <<rows, loading, error, query, groupKey, metricKey, dateKey, selectedGroupValue, offset, hasMore, cancelled>>

\* A mutation of the append: the offset advances by the page size asked for,
\* not by the number of rows received.
LoadMoreResolve_AdvancesByPageSize(i, data) ==
  /\ requests[i].kind = "more"
  /\ requests' = Remove(requests, i)
  /\ rows' = rows \o data
  /\ offset' = offset + PAGE_SIZE
  /\ hasMore' = MorePagesAfter(data)
  /\ loadingMore' = FALSE
  /\ RunDefaults(rows \o data)
  /\ lastOp' = "loadMoreApplied"
  /\ UNCHANGED <<loading, error, query, selectedGroupValue, cancelled>>

\* loadMore, from the arrival of a successful response.
LoadMoreResolve(i, data) ==
  /\ requests[i].kind = "more"
  /\ requests' = Remove(requests, i)
  /\ rows' = rows \o data
  /\ offset' = offset + Len(data)
  /\ hasMore' = MorePagesAfter(data)
  /\ loadingMore' = FALSE
  /\ RunDefaults(rows \o data)
  /\ lastOp' = "loadMoreApplied"
  /\ UNCHANGED <<loading, error, query, selectedGroupValue, cancelled>>

\* A mutation of the failure path: the rows loaded so far are dropped.
LoadMoreReject_DropsRows(i, msg) ==
  /\ requests[i].kind = "more"
  /\ requests' = Remove(requests, i)
  /\ error' = <<msg>>
  /\ loadingMore' = FALSE
  /\ rows' = <<>>
  /\ offset' = 0
  /\ lastOp' = "loadMoreFailed"
  /\ UNCHANGED <<loading, query, groupKey, metricKey, dateKey, selectedGroupValue, hasMore, cancelled>>

\* loadMore, from a failed request.
LoadMoreReject(i, msg) ==
  /\ requests[i].kind = "more"
  /\ requests' = Remove(requests, i)
  /\ error' = <<msg>>
  /\ loadingMore' = FALSE
  /\ lastOp' = "loadMoreFailed"
  /\ UNCHANGED <<rows, loading, query, groupKey, metricKey, dateKey, selectedGroupValue, offset, hasMore, cancelled>>

\* The cleanup of the mount effect: cancelled = true.
Unmount ==
  /\ ~cancelled
  /\ cancelled' = TRUE
  /\ lastOp' = "unmount"
  /\ UNCHANGED <<rows, loading, error, query, groupKey, metricKey, dateKey, selectedGroupValue, offset, hasMore, loadingMore, requests>>

Next ==
  \/ \E i \in 1..Len(requests) : \E data \in Pages(requests[i].offset) : InitialResolve(i, data)
  \/ \E i \in 1..Len(requests) : \E msg \in ErrorMessages : InitialReject(i, msg)
  \/ LoadMoreCall
  \/ \E i \in 1..Len(requests) : \E data \in Pages(requests[i].offset) : LoadMoreResolve(i, data)
  \/ \E i \in 1..Len(requests) : \E msg \in ErrorMessages : LoadMoreReject(i, msg)
  \/ Unmount

Spec == Init /\ [][Next]_vars

(***************************************************************************)
(* Derived views (the useMemo values), as functions of their inputs        *)
(***************************************************************************)
\* The first n elements: array.slice(0, n).
Take(seq, n) == SubSeq(seq, 1, IF Len(seq) < n THEN Len(seq) ELSE n)

\* Map.set(id, e) on an insertion-ordered Map kept as a tuple of records with
\* field id: an existing key keeps its place.
MapHas(m, id) == \E i \in 1..Len(m) : m[i].id = id
MapGet(m, id) == m[CHOOSE i \in 1..Len(m) : m[i].id = id]
MapSet(m, e) == IF MapHas(m, e.id) THEN [i \in 1..Len(m) |-> IF m[i].id = e.id THEN e ELSE m[i]] ELSE Append(m, e)

\* A mutation of the row filter: the comparison is case-sensitive.
filteredRows_CaseSensitive(rs, q) ==
  IF trim(q) = <<>> THEN rs
  ELSE SelectSeq(rs, LAMBDA r : \E i \in 1..Len(r) : isString(r[i][2]) /\ includes(r[i][2].s, q))

\* if (!query.trim()) return rows; otherwise the rows with a string value
\* that includes query.toLowerCase() once lowered itself.
filteredRows(rs, q) ==
  IF trim(q) = <<>> THEN rs
  ELSE SelectSeq(rs, LAMBDA r : \E i \in 1..Len(r) : isString(r[i][2]) /\ includes(toLowerCase(r[i][2].s), toLowerCase(q)))

\* Array.prototype.sort((a, b) => b.value - a.value): stable, descending by value.
RECURSIVE InsertByValueDesc(_, _)
InsertByValueDesc(sorted, x) ==
  IF sorted = <<>> THEN <<x>>
  ELSE IF Head(sorted).value < x.value THEN <<x>> \o sorted
  ELSE <<Head(sorted)>> \o InsertByValueDesc(Tail(sorted), x)

RECURSIVE SortByValueDesc(_)
SortByValueDesc(seq) == IF seq = <<>> THEN <<>> ELSE InsertByValueDesc(SortByValueDesc(SubSeq(seq, 1, Len(seq) - 1)), seq[Len(seq)])

\* The recency timestamp of a row in the ranking: the parsed date, else 0.
RankTimestamp(r, dk) ==
  IF Truthy(dk)
  THEN LET ds == Get(r, dk[1])
       IN IF isString(ds) /\ DateParse(ds.s) # <<>> THEN DateParse(ds.s)[1] ELSE 0
  ELSE 0

\* A mutation of the recency test: a tie keeps the earlier row.
NewerOrSame_Strict(t, prevMs) == t > prevMs

\* t >= prev.dateMs
NewerOrSame(t, prevMs) == t >= prevMs

\* One iteration of the loop of chartData over the filtered rows; acc holds
\* latestByGroup and idToName.
ChartStep(acc, r, gk, mk, dk, nk) ==
  LET g == Get(r, gk[1])
      n == coerceNumber(Get(r, mk[1]))
      nm == Get(r, nk[1])
      t == RankTimestamp(r, dk)
  IN IF ~NonBlankString(g) THEN acc
     ELSE IF n = <<>> THEN acc
     ELSE [names |-> IF Truthy(nk) /\ NonBlankString(nm) /\ ~MapHas(acc.names, g.s)
                     THEN Append(acc.names, [id |-> g.s, name |-> nm.s])
                     ELSE acc.names,
           latest |-> IF ~MapHas(acc.latest, g.s) \/ NewerOrSame(t, MapGet(acc.latest, g.s).dateMs)
                      THEN MapSet(acc.latest, [id |-> g.s, dateMs |-> t, value |-> n[1]])
                      ELSE acc.latest]

RECURSIVE ChartLoop(_, _, _, _, _, _)
ChartLoop(acc, rs, gk, mk, dk, nk) == IF rs = <<>> THEN acc ELSE ChartLoop(ChartStep(acc, Head(rs), gk, mk, dk, nk), Tail(rs), gk, mk, dk, nk)

\* latestByGroup and idToName after the loop.
ChartMaps(frows, gk, mk, dk, nk) == ChartLoop([names |-> <<>>, latest |-> <<>>], frows, gk, mk, dk, nk)

\* The size of the ranking: slice(0, 10).
TopN == 10

chartData(frows, gk, mk, dk, nk) ==
  IF ~Truthy(gk) \/ ~Truthy(mk) THEN <<>>
  ELSE LET maps == ChartMaps(frows, gk, mk, dk, nk)
           data == [i \in 1..Len(maps.latest) |->
                      [label |-> IF MapHas(maps.names, maps.latest[i].id) THEN MapGet(maps.names, maps.latest[i].id).name ELSE maps.latest[i].id,
                       value |-> maps.latest[i].value]]
       IN Take(SortByValueDesc(data), TopN)

\* Array.prototype.sort((a, b) => b[1] - a[1]) on [id, count] entries.
RECURSIVE InsertByCountDesc(_, _)
InsertByCountDesc(sorted, x) ==
  IF sorted = <<>> THEN <<x>>
  ELSE IF Head(sorted).count < x.count THEN <<x>> \o sorted
  ELSE <<Head(sorted)>> \o InsertByCountDesc(Tail(sorted), x)

RECURSIVE SortByCountDesc(_)
SortByCountDesc(seq) == IF seq = <<>> THEN <<>> ELSE InsertByCountDesc(SortByCountDesc(SubSeq(seq, 1, Len(seq) - 1)), seq[Len(seq)])

GroupStep(acc, r, gk, nk) ==
  LET g == Get(r, gk[1])
      nm == Get(r, nk[1])
  IN IF NonBlankString(g)
     THEN [counts |-> MapSet(acc.counts, [id |-> g.s, count |-> (IF MapHas(acc.counts, g.s) THEN MapGet(acc.counts, g.s).count ELSE 0) + 1]),
           names |-> IF Truthy(nk) /\ NonBlankString(nm) /\ ~MapHas(acc.names, g.s)
                     THEN Append(acc.names, [id |-> g.s, name |-> nm.s])
                     ELSE acc.names]
     ELSE acc

RECURSIVE GroupLoop(_, _, _, _)
GroupLoop(acc, rs, gk, nk) == IF rs = <<>> THEN acc ELSE GroupLoop(GroupStep(acc, Head(rs), gk, nk), Tail(rs), gk, nk)

\* The size of the group selector: slice(0, 50).
MaxGroupOptions == 50

groupOptions(frows, gk, nk) ==
  IF ~Truthy(gk) THEN <<>>
  ELSE LET maps == GroupLoop([counts |-> <<>>, names |-> <<>>], frows, gk, nk)
           sorted == SortByCountDesc(maps.counts)
       IN Take([i \in 1..Len(sorted) |->
                  [id |-> sorted[i].id,
                   name |-> IF MapHas(maps.names, sorted[i].id) THEN MapGet(maps.names, sorted[i].id).name ELSE sorted[i].id]],
               MaxGroupOptions)

\* Array.prototype.sort((a, b) => a.date.localeCompare(b.date)).
RECURSIVE InsertByDateAsc(_, _)
InsertByDateAsc(sorted, x) ==
  IF sorted = <<>> THEN <<x>>
  ELSE IF StringLess(x.date, Head(sorted).date) THEN <<x>> \o sorted
  ELSE <<Head(sorted)>> \o InsertByDateAsc(Tail(sorted), x)

RECURSIVE SortByDateAsc(_)
SortByDateAsc(seq) == IF seq = <<>> THEN <<>> ELSE InsertByDateAsc(SortByDateAsc(SubSeq(seq, 1, Len(seq) - 1)), seq[Len(seq)])

\* A mutation of latestPerDay.set(d, n): the first value of a day is kept.
DaySet_FirstWins(m, d, n) == IF MapHas(m, d) THEN m ELSE Append(m, [id |-> d, value |-> n])

\* latestPerDay.set(d, n)
DaySet(m, d, n) == MapSet(m, [id |-> d, value |-> n])

\* One iteration of the loop of timeSeries; acc is latestPerDay.
SeriesStep(acc, r, mk, dk, gk, sel) ==
  LET g == Get(r, gk[1])
      ds == Get(r, dk[1])
      n == coerceNumber(Get(r, mk[1]))
  IN IF Truthy(gk) /\ sel # S_All /\ (~isString(g) \/ g.s # sel) THEN acc
     ELSE IF ~isString(ds) THEN acc
     ELSE IF DateParse(ds.s) = <<>> THEN acc
     ELSE IF n = <<>> THEN acc
     ELSE DaySet(acc, ISODay(DateParse(ds.s)[1]), n[1])

RECURSIVE SeriesLoop(_, _, _, _, _, _)
SeriesLoop(acc, rs, mk, dk, gk, sel) == IF rs = <<>> THEN acc ELSE SeriesLoop(SeriesStep(acc, Head(rs), mk, dk, gk, sel), Tail(rs), mk, dk, gk, sel)

timeSeries(frows, mk, dk, gk, sel) ==
  IF ~Truthy(mk) \/ ~Truthy(dk) THEN <<>>
  ELSE LET latestPerDay == SeriesLoop(<<>>, frows, mk, dk, gk, sel)
       IN SortByDateAsc([i \in 1..Len(latestPerDay) |-> [date |-> latestPerDay[i].id, value |-> latestPerDay[i].value]])

\* const window = 7
window == 7

\* A mutation of the running sum: the value leaving the window is
\* subtracted one step late.
LeavesWindow_Late(i) == i > window

\* if (i >= window) run -= vals[i - window], i counted from 0
LeavesWindow(i) == i >= window

\* The loop of timeSeriesWithMA from index i (counted from 0) with running
\* sum run; the result is the tuple ma, an average being <<run, window>>.
RECURSIVE MALoop(_, _, _)
MALoop(vals, i, run) ==
  IF i >= Len(vals) THEN <<>>
  ELSE LET run1 == run + vals[i + 1]
           run2 == IF LeavesWindow(i) THEN run1 - vals[i - window + 1] ELSE run1
       IN <<(IF i >= window - 1 THEN <<[num |-> run2, den |-> window]>> ELSE <<>>)>> \o MALoop(vals, i + 1, run2)

timeSeriesWithMA(ts) ==
  IF Len(ts) = 0 THEN <<>>
  ELSE LET ma == MALoop([i \in 1..Len(ts) |-> ts[i].value], 0, 0)
       IN [i \in 1..Len(ts) |-> [date |-> ts[i].date, value |-> ts[i].value, ma |-> ma[i]]]

\* filteredRows.map((r) => coerceNumber(r[metricKey])).filter((n) => n !== undefined)
RECURSIVE MetricValues(_, _)
MetricValues(frows, mk) ==
  IF frows = <<>> THEN <<>>
  ELSE LET n == coerceNumber(Get(Head(frows), mk[1]))
       IN (IF n = <<>> THEN <<>> ELSE <<n[1]>>) \o MetricValues(Tail(frows), mk)

\* Math.min(...values) and Math.max(...values) of a non-empty array.
RECURSIVE MathMin(_)
MathMin(values) == IF Len(values) = 1 THEN values[1] ELSE LET m == MathMin(Tail(values)) IN IF Head(values) < m THEN Head(values) ELSE m
RECURSIVE MathMax(_)
MathMax(values) == IF Len(values) = 1 THEN values[1] ELSE LET m == MathMax(Tail(values)) IN IF Head(values) > m THEN Head(values) ELSE m

\* const bins = 20
bins == 20

\* A mutation of the bucket index: the upper clamp is missing.
BucketIndex_NoUpperClamp(v, min, max) ==
  IF max = min THEN (IF v - min < 0 THEN 0 ELSE v - min)
  ELSE IF ((v - min) * bins) \div (max - min) < 0 THEN 0 ELSE ((v - min) * bins) \div (max - min)

\* Math.min(bins - 1, Math.max(0, Math.floor((v - min) / step))) with
\* step = (max - min) / bins || 1: for max > min the quotient (v - min) / step
\* is (v - min) * bins / (max - min).
BucketIndex(v, min, max) ==
  LET q == IF max = min THEN v - min ELSE ((v - min) * bins) \div (max - min)
      lo == IF q < 0 THEN 0 ELSE q
  IN IF lo > bins - 1 THEN bins - 1 ELSE lo

\* counts[idx]++ for every value.
RECURSIVE HistCount(_, _, _, _)
HistCount(counts, values, min, max) ==
  IF values = <<>> THEN counts
  ELSE LET idx == BucketIndex(Head(values), min, max)
       IN HistCount([i \in 1..Len(counts) |-> IF i = idx + 1 THEN counts[i] + 1 ELSE counts[i]], Tail(values), min, max)

\* The buckets: count, and the bounds start and end of the bucket as
\* numerators over the denominator bins (the label text made of them by
\* formatValue is not modelled).
histogram(frows, mk) ==
  IF ~Truthy(mk) THEN <<>>
  ELSE LET values == MetricValues(frows, mk)
       IN IF Len(values) = 0 THEN <<>>
          ELSE LET min == MathMin(values)
                   max == MathMax(values)
                   step == IF max = min THEN bins ELSE max - min
                   counts == HistCount([i \in 1..bins |-> 0], values, min, max)
               IN [i \in 1..bins |-> [start |-> min * bins + (i - 1) * step, end |-> min * bins + i * step, count |-> counts[i]]]

\* Array.prototype.sort((a, b) => a - b).
RECURSIVE InsertAsc(_, _)
InsertAsc(sorted, x) ==
  IF sorted = <<>> THEN <<x>>
  ELSE IF x < Head(sorted) THEN <<x>> \o sorted
  ELSE <<Head(sorted)>> \o InsertAsc(Tail(sorted), x)

RECURSIVE SortAsc(_)
SortAsc(seq) == IF seq = <<>> THEN <<>> ELSE InsertAsc(SortAsc(SubSeq(seq, 1, Len(seq) - 1)), seq[Len(seq)])

RECURSIVE SumSeq(_)
SumSeq(seq) == IF seq = <<>> THEN 0 ELSE Head(seq) + SumSeq(Tail(seq))

\* A mutation of the percentile rank: the other nearest-rank convention.
P95Index_CeilMinusOne(count) == ((count * 95 + 99) \div 100) - 1

\* Math.min(count - 1, Math.floor(count * 0.95))
P95Index(count) == IF (count * 95) \div 100 > count - 1 THEN count - 1 ELSE (count * 95) \div 100

\* stats: <<>> for null, else <<the record>>; mean and median are quotients.
stats(frows, mk) ==
  IF ~Truthy(mk) THEN <<>>
  ELSE LET vals == SortAsc(MetricValues(frows, mk))
           count == Len(vals)
       IN IF count = 0
          THEN <<[count |-> 0, min |-> 0, max |-> 0, mean |-> [num |-> 0, den |-> 1], median |-> [num |-> 0, den |-> 1], p95 |-> 0]>>
          ELSE <<[count |-> count,
                  min |-> vals[1],
                  max |-> vals[count],
                  mean |-> [num |-> SumSeq(vals), den |-> count],
                  median |-> IF count % 2 = 1 THEN [num |-> vals[(count - 1) \div 2 + 1], den |-> 1]
                             ELSE [num |-> vals[count \div 2] + vals[count \div 2 + 1], den |-> 2],
                  p95 |-> vals[P95Index(count) + 1]]>>

\* The views of the current state.
FilteredRows == filteredRows(rows, query)
NameKey == nameKey(rows)
ChartData == chartData(FilteredRows, groupKey, metricKey, dateKey, NameKey)
GroupOptions == groupOptions(FilteredRows, groupKey, NameKey)
TimeSeries == timeSeries(FilteredRows, metricKey, dateKey, groupKey, selectedGroupValue)
TimeSeriesWithMA == timeSeriesWithMA(TimeSeries)
Histogram == histogram(FilteredRows, metricKey)
Stats == stats(FilteredRows, metricKey)

(***************************************************************************)
(* The loaded dashboard: search box and group selector over the views      *)
(***************************************************************************)
\* The trend panel is part of the data section and is shown while the series
\* has more than one point; its header holds the group selector.
TrendPanelRendered == DataSectionRendered /\ Len(TimeSeries) > 1
GroupSelectRendered == TrendPanelRendered /\ Truthy(groupKey) /\ Len(GroupOptions) > 0

\* The option values of the group selector: "All" and the offered ids.
SelectOptions == {S_All} \cup {GroupOptions[i].id : i \in 1..Len(GroupOptions)}

\* Texts typed into the search box.
Queries == {<<>>, <<"a">>, <<"B">>}

\* onChange of the search box: setQuery(e.target.value).
SetQuery(q) ==
  /\ q # query
  /\ query' = q
  /\ lastOp' = "setQuery"
  /\ UNCHANGED <<rows, loading, error, groupKey, metricKey, dateKey, selectedGroupValue, offset, hasMore, loadingMore, cancelled, requests>>

\* onChange of the group selector: setSelectedGroupValue(e.target.value), for
\* one of the options on offer.
SelectGroupValue ==
  /\ GroupSelectRendered
  /\ \E v \in SelectOptions :
       /\ v # selectedGroupValue
       /\ selectedGroupValue' = v
  /\ lastOp' = "selectGroup"
  /\ UNCHANGED <<rows, loading, error, query, groupKey, metricKey, dateKey, offset, hasMore, loadingMore, cancelled, requests>>

\* Data sets behind the endpoint, loaded to their end.
MaxTail == 2
MaxSeriesTail == 1
MaxDays == 8
MaxValues == 3

S_A == <<"A">>
S_B == <<"B">>
S_C == <<"C">>
S_x == <<"x">>
S_na == <<"n","/","a">>
Day0 == <<"1","9","6","9","-","1","2","-","3","1">>
Day2Noon == <<"1","9","7","0","-","0","1","-","0","2","T","1","2",":","0","0","Z">>
DayString(k) == <<"1","9","7","0","-","0","1","-">> \o Pad(k, 2)

VRow(g, v, d) == << <<S_Borough, g>>, <<S_value, v>>, <<S_date, d>> >>
URow(g, v) == << <<S_Borough, g>>, <<S_value, v>> >>

\* Six dated rows of five groups, and the same rows without a date column.
BaseDated ==
  << VRow(Str(S_A), Num(10), Str(DayString(1))), VRow(Str(S_A), Num(20), Str(DayString(2))), VRow(Str(S_B), Num(5), Str(DayString(1))),
     VRow(Str(S_C), Num(7), Str(Day0)), VRow(Str(<<"D">>), Num(7), Str(DayString(3))), VRow(Str(<<"E">>), Num(1), Str(DayString(2))) >>
BaseUndated == [i \in 1..Len(BaseDated) |-> URow(BaseDated[i][1][2], BaseDated[i][2][2])]

\* Twelve dated rows of twelve groups, with equal values among them.
BaseManyGroups == [i \in 1..12 |-> VRow(Str(<<"G", LowerChars[i]>>), Num((i * 5) % 8), Str(DayString((i % 3) + 1)))]

\* Rows that follow a base: equal and unparseable dates, a blank group, a
\* value that is not a number, a numeric string, a missing date.
RankingTail ==
  { VRow(Str(S_A), Num(30), Str(DayString(2))), VRow(Str(S_A), Num(4), Str(S_na)), VRow(Str(S_A), Num(2), Str(DayString(1))),
    VRow(Str(<<" ">>), Num(9), Str(DayString(3))), VRow(Str(S_B), Str(S_x), Str(DayString(3))),
    VRow(Str(S_C), Str(<<"6">>), Str(Day0)), VRow(Str(<<"F">>), Num(2), Null), VRow(Str(S_B), Num(8), Str(Day2Noon)) }
RankingData == {base \o tail : base \in {BaseDated, BaseUndated, BaseManyGroups}, tail \in UNION {[1..k -> RankingTail] : k \in 0..MaxTail}}

\* One row a day for n days, groups alternating, values by pattern p.
Patterns == {0, 1, 2}
DayValue(i, p) == IF p = 0 THEN i ELSE ((i * p) % 5) + 1
DayRows(n, p) == [i \in 1..n |-> VRow(Str(IF i % 2 = 1 THEN S_A ELSE S_B), Num(DayValue(i, p)), Str(DayString(i)))]
SeriesTail ==
  { VRow(Str(S_A), Num(9), Str(Day2Noon)), VRow(Str(S_A), Num(7), Str(S_na)),
    VRow(Str(S_B), Str(S_x), Str(DayString(2))), VRow(Str(S_B), Num(6), Str(Day0)) }
SeriesData == {DayRows(n, p) \o tail : n \in 0..MaxDays, p \in Patterns, tail \in UNION {[1..k -> SeriesTail] : k \in 0..MaxSeriesTail}}

\* Rows of a metric without dates; the twenty values 1..20 out of order.
MetricTail ==
  { URow(Str(S_A), Num(0)), URow(Str(S_A), Num(10)), URow(Str(S_A), Num(5)), URow(Str(S_B), Num(5)),
    URow(Str(S_B), Str(<<"7">>)), URow(Str(S_B), Str(S_x)), URow(Str(S_C), Null) }
Twenty == [i \in 1..20 |-> URow(Str(S_C), Num(((i * 7) % 20) + 1))]
MetricData == (UNION {[1..k -> MetricTail] : k \in 0..MaxValues}) \cup {Twenty, SubSeq(Twenty, 1, 19)}

\* The state after the rows of a data set have been applied and the defaults
\* effect has run on them.
Loaded(data) ==
  /\ rows = data
  /\ loading = FALSE
  /\ error = <<>>
  /\ query = <<>>
  /\ groupKey = DefaultsEffect(data, <<>>, <<>>, <<>>)[1]
  /\ metricKey = DefaultsEffect(data, <<>>, <<>>, <<>>)[2]
  /\ dateKey = DefaultsEffect(data, <<>>, <<>>, <<>>)[3]
  /\ selectedGroupValue = S_All
  /\ offset = Len(data)
  /\ hasMore = FALSE
  /\ loadingMore = FALSE
  /\ cancelled = FALSE
  /\ requests = <<>>
  /\ lastOp = "loaded"

\* The ranking under the search box.
InitRanking == \E data \in RankingData : Loaded(data)
NextRanking == \E q \in Queries : SetQuery(q)
SpecRanking == InitRanking /\ [][NextRanking]_vars

\* The trend panel under the search box and the group selector.
InitSeries == \E data \in SeriesData : Loaded(data)
NextSeries ==
  \/ \E q \in Queries : SetQuery(q)
  \/ SelectGroupValue
SpecSeries == InitSeries /\ [][NextSeries]_vars

\* Data for the group selector: one row a day of groups "A" and "B" for
\* five days or more, followed by rows among which are the only row of a
\* group "C", a row of a group that is named "All", and a row without a
\* number.
SelectorTail ==
  { VRow(Str(S_C), Num(4), Str(DayString(3))), VRow(Str(S_All), Num(3), Str(DayString(1))),
    VRow(Str(S_B), Str(S_x), Str(DayString(2))) }
SelectorData == {DayRows(n, 0) \o tail : n \in 5..MaxDays, tail \in UNION {[1..k -> SelectorTail] : k \in 0..MaxTail}}

\* The group selector and the trend panel around it.
InitSelector == \E data \in SelectorData : Loaded(data)
SpecSelector == InitSelector /\ [][NextSeries]_vars

\* The histogram and the statistics under the search box.
InitMetric == \E data \in MetricData : Loaded(data)
NextMetric == \E q \in Queries : SetQuery(q)
SpecMetric == InitMetric /\ [][NextMetric]_vars

\* Rows for the search box: strings in mixed case, with a blank inside, a
\* number whose digits a query may name, and a row without any string.
MaxFilterRows == 3

S_name == <<"n","a","m","e">>
S_note == <<"n","o","t","e">>
FilterRowPool ==
  { << <<S_name, Str(<<"A","b">>)>> >>,
    << <<S_name, Str(<<"x","b">>)>>, <<S_n, Num(7)>> >>,
    << <<S_zip, Str(<<"7">>)>>, <<S_note, Str(<<"a"," ","B">>)>> >>,
    << <<S_n, Num(7)>>, <<S_note, Null>> >>,
    << <<S_name, Str(<<" ">>)>> >> }
FilterData == UNION {[1..k -> FilterRowPool] : k \in 0..MaxFilterRows}

\* Texts typed into the search box: empty, white space only, letters of
\* either case, a digit, and texts with white space at an end.
FilterQueries == {<<>>, <<" ">>, <<" ","\t">>, <<"a">>, <<"B">>, <<"a","B">>, <<"7">>, <<" ","b">>, <<"b"," ">>}

\* The filtered rows under the search box.
InitFilter == \E data \in FilterData : Loaded(data)
NextFilter == \E q \in FilterQueries : SetQuery(q)
SpecFilter == InitFilter /\ [][NextFilter]_vars

\* Rows with a group column ("borough") and a display-name column
\* ("geo_name", or "Geo_Name" in capitals): names that differ within a group,
\* a blank name, a missing name, a name on a row whose value is no number.
MaxLabelRows == 3

S_borough == <<"b","o","r","o","u","g","h">>
S_geo_name == <<"g","e","o","_","n","a","m","e">>
S_Geo_Name == <<"G","e","o","_","N","a","m","e">>
S_Alpha == <<"A","l","p","h","a">>
S_Alt == <<"A","l","t">>
S_Beta == <<"B","e","t","a">>
NRow(g, nm, v) == << <<S_borough, Str(g)>>, <<S_geo_name, nm>>, <<S_value, v>> >>
LabelRowPool ==
  { NRow(S_A, Str(S_Alpha), Num(5)), NRow(S_A, Str(S_Alt), Num(7)), NRow(S_A, Str(<<" ">>), Num(3)),
    NRow(S_A, Str(S_Alpha), Str(S_x)), NRow(S_A, Null, Num(4)),
    NRow(S_B, Str(S_Beta), Num(6)), NRow(S_B, Null, Str(S_x)),
    << <<S_borough, Str(S_C)>>, <<S_Geo_Name, Str(S_Alt)>>, <<S_value, Num(2)>> >> }
LabelData == UNION {[1..k -> LabelRowPool] : k \in 0..MaxLabelRows}

\* The ranking and its labels under the search box.
InitLabels == \E data \in LabelData : Loaded(data)
NextLabels == \E q \in Queries : SetQuery(q)
SpecLabels == InitLabels /\ [][NextLabels]_vars

(***************************************************************************)
(* Properties of the retrieval and of the schema selector                  *)
(***************************************************************************)
\* What a slot would be set to by a pass that finds it unset.
FreshDefault(candidates, columns) == ResolveSlot(<<>>, candidates, columns)

\* C1: set-once selection.  Once groupKey, metricKey or dateKey holds a column
\* name, no step (in particular no later run of the defaults effect, after
\* any change of rows) changes that slot: a slot only ever goes unset -> set.
C1_SetOnce ==
  [][ /\ (Truthy(groupKey) => groupKey' = groupKey)
      /\ (Truthy(metricKey) => metricKey' = metricKey)
      /\ (Truthy(dateKey) => dateKey' = dateKey) ]_vars

\* C1 happens: a load-more page has been appended and the defaults effect has
\* run again, while groupKey and metricKey keep names that a fresh pass over
\* the current rows would no longer choose.
C1_Witness ==
  /\ lastOp = "loadMoreApplied"
  /\ ~cancelled
  /\ Truthy(groupKey) /\ groupKey # FreshDefault(groupCandidates, stringColumns(rows))
  /\ Truthy(metricKey) /\ metricKey # FreshDefault(metricCandidates, numericColumns(rows))

\* The same for the date slot: dateKey keeps its column although a preferred
\* date column has reached the threshold since.
C1_WitnessDate ==
  /\ lastOp = "loadMoreApplied"
  /\ ~cancelled
  /\ Truthy(dateKey) /\ dateKey # FreshDefault(dateCandidates, dateColumns(rows))

\* C2: single in-flight guard.  At most one page request is outstanding at
\* any time; while a page request is outstanding or hasMore is false no
\* fetch is issued, and a rejected loadMore call changes no state.
C2_SingleInFlight ==
  /\ [](Len(requests) <= 1)
  /\ [][ (requests # <<>> \/ ~hasMore) =>
           /\ Len(requests') <= Len(requests)
           /\ lastOp' # "loadMoreIssued"
           /\ (lastOp' = "loadMoreRejected" =>
                 UNCHANGED <<rows, loading, error, query, groupKey, metricKey, dateKey, selectedGroupValue, offset, hasMore, loadingMore, cancelled, requests>>) ]_vars

\* C2 happens: loadMore was called while a load-more request was outstanding
\* and was rejected.
C2_Witness ==
  /\ lastOp = "loadMoreRejected"
  /\ loadingMore
  /\ Len(requests) = 1 /\ requests[1].kind = "more"

\* C2 also happens for the other reason: loadMore was called after the last
\* page and was rejected.
C2_WitnessNoMore == lastOp = "loadMoreRejected" /\ ~hasMore /\ requests = <<>>

\* C3: cancellation.  After the component is torn down, the completion of a
\* fetch that was outstanding (the initial page or a load-more page, success
\* or failure) changes none of rows, offset, hasMore, error, loading and
\* loadingMore.
C3_DiscardAfterTeardown ==
  [][ cancelled => UNCHANGED <<rows, offset, hasMore, error, loading, loadingMore>> ]_vars

\* The part of C3 that the code keeps: the initial page is discarded.
C3_InitialDiscarded ==
  [][ (cancelled /\ lastOp' = "initialDiscarded") => UNCHANGED <<rows, offset, hasMore, error, loading, loadingMore>> ]_vars

\* C4: a failed load-more attempt leaves rows, offset and hasMore as they
\* were; it records one error message and releases the in-flight flag, and
\* changes nothing else of the component's state.
C4_FailedLoadMoreKeepsRows ==
  [][ lastOp' = "loadMoreFailed" =>
        /\ rows' = rows /\ offset' = offset /\ hasMore' = hasMore
        /\ \E msg \in ErrorMessages : error' = <<msg>>
        /\ loadingMore /\ ~loadingMore'
        /\ UNCHANGED <<loading, query, groupKey, metricKey, dateKey, selectedGroupValue>> ]_vars

\* C4 happens: a load-more request has failed with rows already loaded.
C4_Witness ==
  /\ lastOp = "loadMoreFailed"
  /\ Len(rows) = PAGE_SIZE
  /\ error # <<>>
  /\ ~loadingMore

\* C5: end of data.  A step that applies a page sets hasMore to whether that
\* page held PAGE_SIZE rows; hasMore is false only with no request
\* outstanding, and once it is false no request is issued and neither rows
\* nor hasMore changes again.
C5_EndOfData ==
  /\ [][ lastOp' = "initialApplied" => (hasMore' <=> Len(rows') = PAGE_SIZE) ]_vars
  /\ [][ lastOp' = "loadMoreApplied" => (hasMore' <=> Len(rows') - Len(rows) = PAGE_SIZE) ]_vars
  /\ [](~hasMore => requests = <<>>)
  /\ [][ ~hasMore => (rows' = rows /\ ~hasMore' /\ requests' = requests) ]_vars

\* C5 happens: a short, non-empty page was appended, and a later loadMore
\* call was rejected.
C5_Witness ==
  /\ ~hasMore
  /\ lastOp = "loadMoreRejected"
  /\ Len(rows) > PAGE_SIZE
  /\ Len(rows) % PAGE_SIZE # 0

\* C16: contiguous pages.  In every state with no page request outstanding
\* offset is the number of rows loaded, and every load-more request that is
\* outstanding, up to the moment its result is appended, carries the offset
\* that is the number of rows loaded: the page it fetches starts right after
\* the rows already there, none fetched twice and none skipped.
C16_ContiguousPages ==
  /\ requests = <<>> => offset = Len(rows)
  /\ \A i \in 1..Len(requests) : requests[i].kind = "more" => requests[i].offset = Len(rows)

\* C16 happens: two full pages are loaded and the request of the third page
\* is outstanding with offset 2 * PAGE_SIZE.
C16_Witness ==
  /\ lastOp = "loadMoreIssued"
  /\ Len(rows) = 2 * PAGE_SIZE
  /\ requests = <<[kind |-> "more", offset |-> 2 * PAGE_SIZE]>>

\* C16 also happens at the end: a short page has been appended after a full
\* one and offset is the odd number of rows.
C16_WitnessShortPage ==
  /\ lastOp = "loadMoreApplied"
  /\ requests = <<>>
  /\ Len(rows) > PAGE_SIZE /\ Len(rows) < 2 * PAGE_SIZE
  /\ offset = Len(rows)

(***************************************************************************)
(* Properties of the derived views                                         *)
(***************************************************************************)
\* The metric of row r, which must be coercible.
MetricOf(r) == coerceNumber(Get(r, metricKey[1]))[1]

\* The rows of F the ranking is over, each with its place, group, timestamp
\* and metric: a group value that is a string with a non-blank character,
\* and a coercible metric.
RankedRows(F) ==
  {[row |-> i, group |-> Get(F[i], groupKey[1]).s, stamp |-> RankTimestamp(F[i], dateKey), metric |-> MetricOf(F[i])] :
     i \in {h \in 1..Len(F) : NonBlankString(Get(F[h], groupKey[1])) /\ coerceNumber(Get(F[h], metricKey[1])) # <<>>}}

\* The last-processed row among the rows of group g of maximal timestamp.
LatestRow(ranked, g) ==
  CHOOSE p \in ranked :
    /\ p.group = g
    /\ \A q \in ranked : q.group = g => (q.stamp < p.stamp \/ (q.stamp = p.stamp /\ q.row <= p.row))

\* C6: latest-value ranking.  With a group and a metric column selected, the
\* value kept for each group key is the metric of the last-processed row among
\* that group's rows of maximal timestamp; the ranking holds one entry per
\* group, at most 10, in descending order of value, and they are the entries
\* of greatest value: every value above the last one listed is listed as
\* often as groups report it, and no value is listed more often than that.
C6_LatestValueRanking ==
  (Truthy(groupKey) /\ Truthy(metricKey)) =>
    LET F == FilteredRows
        latest == ChartMaps(F, groupKey, metricKey, dateKey, NameKey).latest
        chart == ChartData
        n == Len(chart)
        ranked == RankedRows(F)
        groups == {p.group : p \in ranked}
        reported == {<<g, LatestRow(ranked, g).metric>> : g \in groups}
        listed == {<<k, chart[k].value>> : k \in 1..n}
        groupsWith(v) == Cardinality({e \in reported : e[2] = v})
        listedWith(v) == Cardinality({e \in listed : e[2] = v})
    IN /\ {<<latest[k].id, latest[k].value>> : k \in 1..Len(latest)} = reported
       /\ Len(latest) = Cardinality(groups)
       /\ n = (IF Cardinality(groups) < 10 THEN Cardinality(groups) ELSE 10)
       /\ \A k \in 1..(n - 1) : chart[k].value >= chart[k + 1].value
       /\ \A e \in listed : listedWith(e[2]) <= groupsWith(e[2])
       /\ \A e \in reported : e[2] > chart[n].value => listedWith(e[2]) = groupsWith(e[2])

\* C6 happens: the search text has been changed and, in the views made anew,
\* more than 10 groups are ranked, the list is cut to 10, and a
\* group has two rows of equal maximal timestamp and different metrics, of
\* which the later one is reported.
C6_Witness ==
  /\ lastOp = "setQuery"
  /\ Truthy(groupKey) /\ Truthy(metricKey) /\ Truthy(dateKey)
  /\ Cardinality({p.group : p \in RankedRows(FilteredRows)}) > 10
  /\ Len(ChartData) = 10
  /\ \E p \in RankedRows(FilteredRows), q \in RankedRows(FilteredRows) :
       /\ p.row < q.row /\ p.group = q.group /\ p.stamp = q.stamp /\ p.metric # q.metric
       /\ q = LatestRow(RankedRows(FilteredRows), q.group)
       /\ \E k \in 1..Len(ChartData) : ChartData[k].label = q.group /\ ChartData[k].value = q.metric

\* The rows of F that contribute to the time series: of the selected group
\* if one is selected, with a date that parses and a coercible metric.
SeriesRows(F) ==
  {i \in 1..Len(F) :
     /\ (Truthy(groupKey) /\ selectedGroupValue # S_All) => Get(F[i], groupKey[1]) = Str(selectedGroupValue)
     /\ isString(Get(F[i], dateKey[1]))
     /\ DateParse(Get(F[i], dateKey[1]).s) # <<>>
     /\ coerceNumber(Get(F[i], metricKey[1])) # <<>>}
DayOf(r) == ISODay(DateParse(Get(r, dateKey[1]).s)[1])

\* C7: time series.  With a metric and a date column selected the series has
\* exactly one point per calendar day that has a contributing row, in
\* strictly ascending day order, and the value of a point is the metric of
\* the last-processed contributing row of its day; with no date column
\* selected the series is empty.
C7_TimeSeries ==
  LET F == FilteredRows
      series == TimeSeries
  IN /\ (Truthy(metricKey) /\ Truthy(dateKey)) =>
          LET contributing == SeriesRows(F)
          IN /\ {series[k].date : k \in 1..Len(series)} = {DayOf(F[i]) : i \in contributing}
             /\ \A k \in 1..(Len(series) - 1) : StringLess(series[k].date, series[k + 1].date)
             /\ \A k \in 1..Len(series) :
                  \E i \in contributing :
                    /\ DayOf(F[i]) = series[k].date
                    /\ \A j \in contributing : DayOf(F[j]) = series[k].date => j <= i
                    /\ series[k].value = MetricOf(F[i])
     /\ ~Truthy(dateKey) => series = <<>>

\* C7 happens: the search text has been changed and, in the views made anew,
\* two contributing rows of one day carry different metrics, the
\* series shows the later one, and the series has several days.
C7_Witness ==
  /\ lastOp = "setQuery"
  /\ Truthy(metricKey) /\ Truthy(dateKey)
  /\ Len(TimeSeries) > 2
  /\ \E i \in SeriesRows(FilteredRows), j \in SeriesRows(FilteredRows) :
       /\ i < j /\ DayOf(FilteredRows[i]) = DayOf(FilteredRows[j]) /\ MetricOf(FilteredRows[i]) # MetricOf(FilteredRows[j])
       /\ \A h \in SeriesRows(FilteredRows) : DayOf(FilteredRows[h]) = DayOf(FilteredRows[j]) => h <= j
       /\ \E k \in 1..Len(TimeSeries) : TimeSeries[k].date = DayOf(FilteredRows[j]) /\ TimeSeries[k].value = MetricOf(FilteredRows[j])

\* C8: moving average.  The smoothed series has the length, dates and values
\* of the series; its first six points carry no average and every later
\* point carries the sum of its value and the six values before it, over 7.
C8_MovingAverage ==
  LET series == TimeSeries
      smoothed == timeSeriesWithMA(series)
  IN /\ Len(smoothed) = Len(series)
     /\ \A k \in 1..Len(series) :
          /\ smoothed[k].date = series[k].date
          /\ smoothed[k].value = series[k].value
          /\ k <= 6 => smoothed[k].ma = <<>>
          /\ k >= 7 => smoothed[k].ma = <<[num |-> SumSeq([h \in 1..7 |-> series[k - 7 + h].value]), den |-> 7]>>

\* C8 happens: the search text has been changed and, in the views made anew,
\* the series is 1, 2, ..., 8 or longer and different values
\* enter and leave the window; the averages at the seventh and the eighth
\* point are 28/7 and 35/7.
C8_Witness ==
  /\ lastOp = "setQuery"
  /\ Len(TimeSeries) >= 8
  /\ \A k \in 1..8 : TimeSeries[k].value = k
  /\ TimeSeriesWithMA[7].ma = <<[num |-> 28, den |-> 7]>>
  /\ TimeSeriesWithMA[8].ma = <<[num |-> 35, den |-> 7]>>

\* How many of the values of function f are v.
Occurrences(f, v) == Cardinality({x \in DOMAIN f : f[x] = v})

\* The coercible metrics of the rows of F, in row order.
CoercibleMetrics(F) == LET rs == SelectSeq(F, LAMBDA r : coerceNumber(Get(r, metricKey[1])) # <<>>) IN [i \in 1..Len(rs) |-> MetricOf(rs[i])]
Least(values) == CHOOSE m \in {values[i] : i \in 1..Len(values)} : \A i \in 1..Len(values) : m <= values[i]
Greatest(values) == CHOOSE m \in {values[i] : i \in 1..Len(values)} : \A i \in 1..Len(values) : m >= values[i]

\* floor((v - min) / width) clamped to 0..19, width being (max - min) / 20,
\* or 1 when max = min: the b with b * (max - min) <= 20 * (v - min) <
\* (b + 1) * (max - min), or 19 if that is beyond 19.
BucketOf(v, min, max) ==
  IF min = max THEN 0
  ELSE CHOOSE b \in 0..19 : b * (max - min) <= 20 * (v - min) /\ (b = 19 \/ 20 * (v - min) < (b + 1) * (max - min))

\* C9: histogram coverage.  With a metric column selected and at least one
\* coercible value among the filtered rows, the histogram has exactly 20
\* buckets, bucket b counts the values whose clamped index is b, the counts
\* sum to the number of coercible values, the greatest value is in bucket 19
\* when the values differ, and all values are in bucket 0 of width 1 when
\* they are all equal.
C9_HistogramCoverage ==
  LET values == CoercibleMetrics(FilteredRows)
      buckets == Histogram
  IN (Truthy(metricKey) /\ Len(values) > 0) =>
       LET min == Least(values)
           max == Greatest(values)
           index == [i \in 1..Len(values) |-> BucketOf(values[i], min, max)]
       IN /\ Len(buckets) = 20
          /\ \A b \in 0..19 : buckets[b + 1].count = Occurrences(index, b)
          /\ SumSeq([b \in 1..20 |-> buckets[b].count]) = Len(values)
          /\ min < max => buckets[20].count >= Occurrences(values, max)
          /\ min = max => (buckets[1].count = Len(values) /\ buckets[1].end - buckets[1].start = 20)

\* C9 happens: the search text has been changed and, in the views made anew,
\* the values are 0, 5 and 10 in some order; 0 is in bucket 0, 5
\* in bucket 10 and the greatest, 10, in bucket 19.
C9_Witness ==
  /\ lastOp = "setQuery"
  /\ Truthy(metricKey)
  /\ Len(CoercibleMetrics(FilteredRows)) = 3
  /\ {CoercibleMetrics(FilteredRows)[i] : i \in 1..3} = {0, 5, 10}
  /\ Histogram[1].count = 1 /\ Histogram[11].count = 1 /\ Histogram[20].count = 1

\* The k-th smallest of the values, k counted from 1: fewer than k of the
\* values are below it and at least k are not above it.
Smallest(values, k) ==
  CHOOSE m \in {values[i] : i \in 1..Len(values)} :
    /\ Cardinality({i \in 1..Len(values) : values[i] < m}) < k
    /\ Cardinality({i \in 1..Len(values) : values[i] <= m}) >= k

\* C10: statistics.  With a metric column selected and count the number of
\* coercible metrics of the filtered rows: min and max are the least and the
\* greatest, mean is their sum over count, median is the middle one in
\* ascending order or half the sum of the two central ones, and p95 is the
\* one at index min(count - 1, floor(count * 0.95)) counted from 0; with no
\* coercible metric the record is count 0 and zeros.
C10_Statistics ==
  Truthy(metricKey) =>
    LET values == CoercibleMetrics(FilteredRows)
        result == Stats
        count == Len(values)
        rank == IF (count * 95) \div 100 < count - 1 THEN (count * 95) \div 100 ELSE count - 1
    IN /\ Len(result) = 1
       /\ result[1].count = count
       /\ count = 0 => result[1] = [count |-> 0, min |-> 0, max |-> 0, mean |-> [num |-> 0, den |-> 1], median |-> [num |-> 0, den |-> 1], p95 |-> 0]
       /\ count > 0 =>
            /\ result[1].min = Smallest(values, 1)
            /\ result[1].max = Smallest(values, count)
            /\ \A i \in 1..count : result[1].min <= values[i] /\ values[i] <= result[1].max
            /\ result[1].mean = [num |-> SumSeq(values), den |-> count]
            /\ count % 2 = 1 => result[1].median = [num |-> Smallest(values, (count + 1) \div 2), den |-> 1]
            /\ count % 2 = 0 => result[1].median = [num |-> Smallest(values, count \div 2) + Smallest(values, count \div 2 + 1), den |-> 2]
            /\ result[1].p95 = Smallest(values, rank + 1)

\* C10 happens: the search text has been changed and, in the views made anew,
\* the metrics are 1..20 out of order; min is 1, max is 20, the
\* median is 21/2 and p95 is 20.
C10_Witness ==
  /\ lastOp = "setQuery"
  /\ Truthy(metricKey)
  /\ Len(CoercibleMetrics(FilteredRows)) = 20
  /\ {CoercibleMetrics(FilteredRows)[i] : i \in 1..20} = 1..20
  /\ CoercibleMetrics(FilteredRows)[1] # 1
  /\ Stats[1].count = 20 /\ Stats[1].min = 1 /\ Stats[1].max = 20
  /\ Stats[1].median = [num |-> 21, den |-> 2]
  /\ Stats[1].p95 = 20

\* C10 also happens for no coercible metric: a metric column is selected,
\* the search leaves rows none of which has a coercible metric, and the
\* record is count 0 and zeros.
C10_WitnessEmpty ==
  /\ Truthy(metricKey)
  /\ FilteredRows # <<>>
  /\ CoercibleMetrics(FilteredRows) = <<>>
  /\ Stats = <<[count |-> 0, min |-> 0, max |-> 0, mean |-> [num |-> 0, den |-> 1], median |-> [num |-> 0, den |-> 1], p95 |-> 0]>>

(***************************************************************************)
(* Properties of the group selector and of the trend panel                 *)
(***************************************************************************)
\* The ids on offer in the group selector.
OfferedIds == {GroupOptions[i].id : i \in 1..Len(GroupOptions)}

\* The places of the rows of F that pass every test of the loop of
\* timeSeries under the current selection and reach latestPerDay.set.
Contributing(F) == {i \in 1..Len(F) : SeriesStep(<<>>, F[i], metricKey, dateKey, groupKey, selectedGroupValue) # <<>>}

\* C11: group filter of the time series.  When the value just selected in
\* the group selector is one of the ids on offer, every row that contributes
\* to the time series holds exactly that id in the group column.
C11_GroupFilter ==
  (lastOp = "selectGroup" /\ Truthy(groupKey) /\ selectedGroupValue \in OfferedIds) =>
    LET F == FilteredRows
    IN \A i \in Contributing(F) : Get(F[i], groupKey[1]) = Str(selectedGroupValue)

\* The part of C11 that the code keeps: an offered id other than "All".
C11_GroupFilterOfNamedGroup ==
  (lastOp = "selectGroup" /\ Truthy(groupKey) /\ selectedGroupValue \in OfferedIds /\ selectedGroupValue # S_All) =>
    LET F == FilteredRows
    IN \A i \in Contributing(F) : Get(F[i], groupKey[1]) = Str(selectedGroupValue)

\* C11 happens for a named group: group "A" has just been selected, rows of
\* other groups with a date and a metric are among the filtered rows, and
\* rows of "A" make the series.
C11_WitnessNamedGroup ==
  /\ lastOp = "selectGroup"
  /\ selectedGroupValue = S_A
  /\ S_A \in OfferedIds
  /\ Contributing(FilteredRows) # {}
  /\ \E i \in 1..Len(FilteredRows) :
       /\ Get(FilteredRows[i], groupKey[1]) = Str(S_B)
       /\ SeriesStep(<<>>, FilteredRows[i], metricKey, dateKey, groupKey, S_All) # <<>>

\* C17: the group selector stays reachable.  When a group id on offer has
\* just been selected, the trend panel is still rendered and the selector
\* in its header with it, so that the user can select "All" again.
C17_SelectorStaysReachable ==
  (lastOp = "selectGroup" /\ selectedGroupValue # S_All) => GroupSelectRendered

\* C17 happens where the code keeps it: a group with several days of its own
\* has just been selected, the series is that of the group alone and is
\* shorter than the series of all groups, and the selector is still there.
C17_WitnessLongGroup ==
  /\ lastOp = "selectGroup"
  /\ selectedGroupValue = S_B
  /\ GroupSelectRendered
  /\ Len(TimeSeries) > 1
  /\ Len(TimeSeries) < Len(timeSeries(FilteredRows, metricKey, dateKey, groupKey, S_All))

(***************************************************************************)
(* Properties of the row filter                                            *)
(***************************************************************************)
\* Two characters that are equal or are the two cases of one letter.
SameLetter(c, d) == c = d \/ \E n \in 1..Len(UpperChars) : {c, d} = {UpperChars[n], LowerChars[n]}

\* String s contains text q, the case of letters ignored.
ContainsIgnoringCase(s, q) == \E i \in 0..(Len(s) - Len(q)) : \A k \in 1..Len(q) : SameLetter(s[i + k], q[k])

\* The k-th place, in ascending order, of a set of places.
PlaceOf(places, k) == CHOOSE i \in places : Cardinality({j \in places : j <= i}) = k

\* C12: row filter.  For an empty or white-space-only query the filtered
\* rows are the rows, same rows in the same order; for any other query they
\* are, in the order of the rows, exactly the rows in which at least one
\* string-valued field contains the query, the case of letters ignored.
C12_RowFilter ==
  LET F == FilteredRows
      blank == \A k \in 1..Len(query) : query[k] \in WhiteSpace
      matching == {i \in 1..Len(rows) : \E f \in 1..Len(rows[i]) : rows[i][f][2].type = "string" /\ ContainsIgnoringCase(rows[i][f][2].s, query)}
  IN /\ blank => F = rows
     /\ ~blank => /\ Len(F) = Cardinality(matching)
                  /\ \A k \in 1..Len(F) : F[k] = rows[PlaceOf(matching, k)]

\* C12 happens: the query "B" has been typed; the first row, whose only
\* "b" is in lower case, is kept, the second, without any string, is dropped
\* and a third, different from the first, is kept after it.
C12_Witness ==
  /\ lastOp = "setQuery"
  /\ query = <<"B">>
  /\ Len(rows) = 3
  /\ rows[1] = << <<S_name, Str(<<"x","b">>)>>, <<S_n, Num(7)>> >>
  /\ \A f \in 1..Len(rows[2]) : rows[2][f][2].type # "string"
  /\ FilteredRows = <<rows[1], rows[3]>>
  /\ rows[1] # rows[3]

\* C12 also happens for the identity: a query of white space only has been
\* typed, all rows are kept, and one of them holds no white space at all.
C12_WitnessBlank ==
  /\ lastOp = "setQuery"
  /\ query = <<" ","\t">>
  /\ Len(rows) = 3
  /\ FilteredRows = rows
  /\ rows[2] = << <<S_name, Str(<<"A","b">>)>> >>

\* C12 also happens for a digit: the query "7" keeps the row that holds the
\* string "7" and drops the row that holds the number 7 only.
C12_WitnessNumber ==
  /\ lastOp = "setQuery"
  /\ query = <<"7">>
  /\ Len(rows) = 2
  /\ rows[1] = << <<S_n, Num(7)>>, <<S_note, Null>> >>
  /\ FilteredRows = <<rows[2]>>

(***************************************************************************)
(* Properties of the selection and of the display-name column              *)
(***************************************************************************)
\* Every set slot names a column of its classified list over the current rows.
SlotsAreMembers ==
  /\ Truthy(groupKey) => Includes(stringColumns(rows), groupKey[1])
  /\ Truthy(metricKey) => Includes(numericColumns(rows), metricKey[1])
  /\ Truthy(dateKey) => Includes(dateColumns(rows), dateKey[1])

\* C13: selection membership.  In every state that a page load has just
\* produced (the first page applied and the defaults pass run on it, or a
\* further page appended), a set groupKey names a string-like column of the
\* current rows, a set metricKey a numeric-like column and a set dateKey a
\* date-like column.
C13_SelectionMembership == lastOp \in {"initialApplied", "loadMoreApplied"} => SlotsAreMembers

\* The same in every state: no other step changes the rows or a slot.
C13_MembershipInEveryState == SlotsAreMembers

\* C13 happens: all three slots are set, pages have been appended since the
\* first pass, and the group column kept is one that the preference list
\* does not name although a preferred column has joined the list since.
C13_Witness ==
  /\ lastOp = "loadMoreApplied"
  /\ ~cancelled
  /\ Len(rows) > PAGE_SIZE
  /\ Truthy(groupKey) /\ Truthy(metricKey) /\ Truthy(dateKey)
  /\ groupKey = <<S_zip>>
  /\ Includes(stringColumns(rows), S_Borough)
  /\ Includes(stringColumns(rows), S_zip)

\* The label the display-name column gives group g over the rows at the
\* places `among` of F: the name held by the first of them that is of group
\* g and holds a name with a non-blank character; the group key if there is
\* no display-name column or no such row.
LabelOver(F, among, g) ==
  LET named == {i \in among : Get(F[i], groupKey[1]) = Str(g) /\ NonBlankString(Get(F[i], NameKey[1]))}
  IN IF Truthy(NameKey) /\ named # {}
     THEN Get(F[CHOOSE i \in named : \A j \in named : i <= j], NameKey[1]).s
     ELSE g

\* The ranking lists, for the groups it shows, the pairs of label and value
\* that the names at the places `among` and the latest row of each group
\* give: no pair more often
\* than groups give it, and every pair of a group that the cut to 10 cannot
\* have dropped as often as groups give it.
LabelsAre(F, chart, among) ==
  LET ranked == RankedRows(F)
      groups == {p.group : p \in ranked}
      expected == {<<g, LabelOver(F, among, g), LatestRow(ranked, g).metric>> : g \in groups}
      n == Len(chart)
      listedAs(l, v) == Cardinality({k \in 1..n : chart[k].label = l /\ chart[k].value = v})
      groupsAs(l, v) == Cardinality({e \in expected : e[2] = l /\ e[3] = v})
  IN /\ \A k \in 1..n : listedAs(chart[k].label, chart[k].value) <= groupsAs(chart[k].label, chart[k].value)
     /\ \A e \in expected : (Cardinality(groups) <= 10 \/ e[3] > chart[n].value) => listedAs(e[2], e[3]) = groupsAs(e[2], e[3])

\* C14: ranking label resolution.  For every group key in the ranking: if
\* a display-name column is configured and some filtered row of that group
\* holds a display-name string with a non-blank character, the label is the
\* name of the first such row; otherwise the label is the group key.
C14_LabelResolution ==
  (Truthy(groupKey) /\ Truthy(metricKey)) =>
    LET F == FilteredRows
    IN LabelsAre(F, ChartData, 1..Len(F))

\* The part of C14 that the code keeps: the first such row among the rows
\* that enter the ranking, which are those of a coercible metric.
C14_LabelFromRankedRows ==
  (Truthy(groupKey) /\ Truthy(metricKey)) =>
    LET F == FilteredRows
    IN LabelsAre(F, ChartData, {p.row : p \in RankedRows(F)})

\* C14 happens where the code keeps it: group "A" is ranked under the name
\* of its first named row although a later row holds another name, and
\* group "B", none of whose rows holds a name, under its key.
C14_WitnessRankedRows ==
  /\ lastOp = "setQuery"
  /\ NameKey = <<S_geo_name>>
  /\ Len(FilteredRows) = 3
  /\ FilteredRows[1] = NRow(S_A, Str(S_Alt), Num(7))
  /\ FilteredRows[2] = NRow(S_A, Str(S_Alpha), Num(5))
  /\ Get(FilteredRows[3], groupKey[1]) = Str(S_C)
  /\ ChartData = <<[label |-> S_Alt, value |-> 5], [label |-> S_C, value |-> 2]>>

\* The places in the preference list of the display name whose entry is
\* the lower-case form of a string-like column of the rows.
MatchedNamePlaces ==
  LET columns == stringColumns(rows)
      lowered == {toLowerCase(columns[i]) : i \in 1..Len(columns)}
  IN {k \in 1..Len(nameCandidates) : nameCandidates[k] \in lowered}

\* C15: display-name column resolution.  nameKey is undefined exactly when
\* no string-like column matches the preference list; otherwise it is the
\* name of a string-like column of the rows, a key under which some row
\* holds a string with a non-blank character, and the entry of the
\* preference list it matches, the case of letters ignored, is the earliest
\* entry that any string-like column matches.
C15_NameKeyIsColumn ==
  LET nk == NameKey
      places == MatchedNamePlaces
  IN /\ nk = <<>> <=> places = {}
     /\ nk # <<>> =>
          /\ Includes(stringColumns(rows), nk[1])
          /\ \E i \in 1..Len(rows) : NonBlankString(Get(rows[i], nk[1]))
          /\ \E k \in places : nameCandidates[k] = toLowerCase(nk[1]) /\ \A j \in places : k <= j

\* The part of C15 that the code keeps: nameKey is undefined exactly when
\* no string-like column matches, and otherwise it is the earliest matched
\* entry of the preference list itself, in lower case.
C15_NameKeyIsEarliestEntry ==
  LET nk == NameKey
      places == MatchedNamePlaces
  IN /\ nk = <<>> <=> places = {}
     /\ nk # <<>> => \E k \in places : nameCandidates[k] = nk[1] /\ \A j \in places : k <= j

\* C15 happens where the code keeps it: the rows hold the string-like
\* columns "borough" and "geo_name" in lower case, and nameKey is "geo_name",
\* the earlier entry, though "borough" is the earlier column.
C15_WitnessLowerCase ==
  /\ Len(rows) > 0
  /\ stringColumns(rows) = <<S_borough, S_geo_name>>
  /\ NameKey = <<S_geo_name>>

=============================================================================
